---- MODULE Spec2Model ----
(***************************************************************************)
(* Static slackline solver: Constraints (src/src/api.py), the shooting     *)
(* integrator and its two binary searches (src/src/integrator.py) and the  *)
(* point-mass jump conditions (src/src/calculus.py, src/src/core/          *)
(* calculus.py).                                                           *)
(*                                                                         *)
(* Floating point quantities are held in fixed point:                      *)
(*   x, gap_length, L            centimetres            (UX per metre)     *)
(*   y, n                        1e-4 metre             (FP per metre)     *)
(*   y_x, n_x (slopes)           1e-4                   (FP per unit)      *)
(*   anchor_angle                1e-4 radian            (FP per radian)    *)
(*   tensions, K                 newton                                    *)
(*   m (kg/m), g (m/s^2), mass (kg)  whole numbers                         *)
(***************************************************************************)
EXTENDS Integers, Sequences, FiniteSets, TLC

\* ------------------------------------------------------------------ scales
UX == 10 * 10
FP == 100 * 100

\* ------------------------------------------------------ program constants
\* integrate_length_tension: a = 0.001, b = pi/4 (radians, in 1e-4 rad)
AngleLower == 10
AngleUpper == 7854
\* integrate_length_tension / integrate_natural_length: the 1e-1 tolerances
XTol == 10
NTol == 1000
\* integrate_natural_length: b = 50000.0 (newton)
TensionUpper == 50000
\* integrate: L = 1000.0 on the last segment (centimetres)
LGuess == 100000
\* damping_ratio=0.02, the default of DynamicSlackline, in units of 1e-2.
DampingRatio == 2

\* ------------------------------------------------------------------ bounds
\* samples of one solve_ivp call (np.linspace(..., 1000) in the code)
NumSamples == 5
\* Largest n_nodes of a DynamicSlackline and largest n_frames of a simulation.
NumNodes == 4
NumFrames == 3
\* number of add_slackliner calls accepted on one Constraints object
MaxLoads == 2

\* ------------------------------------------------------------- arithmetic
Abs(v) == IF v < 0 THEN -v ELSE v

\* Division rounding toward zero; q # 0.  The operands are evaluated once
\* and bound as v = <<p, q>>.
Div(p, q) ==
    CHOOSE r \in { IF (v[1] >= 0) = (v[2] > 0)
                   THEN Abs(v[1]) \div Abs(v[2])
                   ELSE -(Abs(v[1]) \div Abs(v[2])) : v \in {<<p, q>>} } : TRUE

RECURSIVE IsqrtIter(_, _, _)
IsqrtIter(v, lo, hi) ==
    IF hi - lo <= 1 THEN lo
    ELSE CHOOSE r \in { IF mid * mid <= v THEN IsqrtIter(v, mid, hi)
                                          ELSE IsqrtIter(v, lo, mid)
                        : mid \in {(lo + hi) \div 2} } : TRUE

\* np.sqrt on a non-negative fixed point square: floor of the square root.
Isqrt(v) == CHOOSE r \in { IF w <= 0 THEN 0 ELSE IsqrtIter(w, 0, 46341) : w \in {v} } : TRUE

\* sqrt(1 + y_x**2) in fixed point.
Hyp(a) == Isqrt(FP * FP + a * a)

\* np.tan on [0, pi/4] by its Taylor series, in fixed point.
Tan(t) ==
    LET t2 == Div(t * t, FP)
        t3 == Div(t2 * t, FP)
        t5 == Div(t3 * t2, FP)
        t7 == Div(t5 * t2, FP)
    IN  t + Div(t3, 3) + Div(2 * t5, 15) + Div(17 * t7, 315)

Last(s) == s[Len(s)]

Prefix(s, k) == SubSeq(s, 1, k)

\* ------------------------------------------------ Euler-Lagrange equations
\* The four right-hand sides of first_order_euler_lagrange(ideal), in closed
\* form, for the state st = [y, n, a, b] (a = y_x, b = n_x):
\*     dy/dx = a            dn/dx = b
\*     da/dx = m*g*b*s / T              with s = sqrt(1 + a^2),
\*     db/dx = (a*b/s^2) * (da/dx - m*g*b^2/K)       T = K*(s - b)/b
\* LocalTension is T; the right-hand side is finite only where b # 0, T # 0.
LocalTension(sl, a, b) == Div(sl.K * (Hyp(a) - b), b)

Finite(sl, st) ==
    /\ sl.K # 0
    /\ st.b # 0
    /\ LocalTension(sl, st.a, st.b) # 0

\* One step of length h (centimetres) of the explicit solver from state st.
OdeStep(sl, st, h) ==
    LET s  == Hyp(st.a)
        T  == LocalTension(sl, st.a, st.b)
        w  == sl.m * sl.g
        da == Div(Div(w * Div(st.b * s, FP), UX) * h, T)
        db == Div(Div(st.a * st.b, s)
                    * (da - Div(Div(w * Div(st.b * st.b, FP), UX) * h, sl.K)), s)
    IN  [y |-> st.y + Div((2 * st.a + da) * h, 2 * UX),
         n |-> st.n + Div((2 * st.b + db) * h, 2 * UX),
         a |-> st.a + da,
         b |-> st.b + db]

\* np.linspace(last_x, last_x + L, NumSamples)[k], k = 0 .. NumSamples-1.
Linspace(last_x, L, k) ==
    IF k = NumSamples - 1 THEN last_x + L
    ELSE last_x + Div(k * L, NumSamples - 1)

\* sp.integrate.solve_ivp(fn, (last_x, last_x + L), st0, t_eval=_x): the
\* sequence of samples [t, y, n, a, b].  A sample is emitted when the step
\* that reaches it succeeds; the solver stops at the first state where the
\* right-hand side is not finite, so the result may be short or empty.
RECURSIVE SolveFrom(_, _, _, _, _, _)
SolveFrom(sl, last_x, L, k, st, acc) ==
    LET here == Append(acc, [t |-> Linspace(last_x, L, k),
                             y |-> st.y, n |-> st.n, a |-> st.a, b |-> st.b])
    IN  IF k = NumSamples - 1 THEN here
        ELSE IF ~Finite(sl, st) THEN (IF k = 0 THEN << >> ELSE here)
        ELSE CHOOSE r \in { SolveFrom(sl, last_x, L, k + 1, nxt, here)
                            : nxt \in {OdeStep(sl, st, Linspace(last_x, L, k + 1)
                                                         - Linspace(last_x, L, k))} }
                    : TRUE

\* With an empty interval (L = 0) the solver finishes at once and every sample
\* is the initial state.
solve_ivp(sl, last_x, L, st0) ==
    IF L = 0
    THEN [k \in 1..NumSamples |->
            [t |-> last_x, y |-> st0.y, n |-> st0.n, a |-> st0.a, b |-> st0.b]]
    ELSE SolveFrom(sl, last_x, L, 0, st0, << >>)

\* ------------------------------------------------- point-mass jump conditions
\* Both implementations solve, for (a_r, b_r),
\*     dL/da(right) - dL/da(left) = M*g,     dL/db(right) - dL/db(left) = 0.
\* With dL/da = T*a/s and dL/db = m*g*y - K*s^2/(2*b^2) + K/2 the second
\* equation keeps s/b (the tension T) and the first turns the sine of the
\* angle by M*g/T:  a_r/s_r = a_l/s_l + M*g/T,  b_r = s_r*b_l/s_l.
\* SineRight is a_r/s_r in fixed point; a real root exists iff |sine| < 1.
SineRight(K, g, M, a_l, b_l) ==
    Div(a_l * FP, Hyp(a_l)) + Div(M * g * FP, Div(K * (Hyp(a_l) - b_l), b_l))

HasRoot(K, g, M, a_l, b_l) ==
    /\ K # 0
    /\ b_l # 0
    /\ Div(K * (Hyp(a_l) - b_l), b_l) # 0
    /\ Abs(SineRight(K, g, M, a_l, b_l)) < FP

\* The root on the other branch, s_r/b_r = -s_l/b_l.
RootMirrored(K, g, M, a_l, b_l) ==
    LET q   == SineRight(K, g, M, a_l, b_l)
        a_r == Div(FP * q, Isqrt(FP * FP - q * q))
    IN  [a |-> a_r, b |-> -Div(Hyp(a_r) * b_l, Hyp(a_l))]

\* The root with s_r/b_r = s_l/b_l (b_r has the sign of b_l).
Root(K, g, M, a_l, b_l) ==
    LET q   == SineRight(K, g, M, a_l, b_l)
        a_r == Div(FP * q, Isqrt(FP * FP - q * q))
    IN  [a |-> a_r, b |-> Div(Hyp(a_r) * b_l, Hyp(a_l))]

\* calculus.mass_boundary_conditions (sympy.solve): the first root with a, b
\* real and b > 0 as [y0, n0, a, b]; raises when there is none.
mass_boundary_conditions_legacy(y, n, y_x, n_x, m, g, K, mass) ==
    IF HasRoot(K, g, mass, y_x, n_x) /\ Root(K, g, mass, y_x, n_x).b > 0
    THEN [raised |-> FALSE, y0 |-> y, n0 |-> n,
          a |-> Root(K, g, mass, y_x, n_x).a, b |-> Root(K, g, mass, y_x, n_x).b]
    ELSE [raised |-> TRUE, y0 |-> y, n0 |-> n, a |-> 0, b |-> 0]

\* A closure that captures the material and the mass but no position.
mass_boundary_conditions_unplaced(_x, _m, _g, _K, _M) ==
    [x |-> 0, m |-> _m, g |-> _g, K |-> _K, M |-> _M]

\* core.calculus.mass_boundary_conditions: the closure kept in Constraints.mbcs,
\* which captures the position, the material and the mass.
mass_boundary_conditions(_x, _m, _g, _K, _M) ==
    [x |-> _x, m |-> _m, g |-> _g, K |-> _K, M |-> _M]

\* scipy.optimize.fsolve seeded at [y_x, n_x]: the root next to the seed when
\* the equations have one, and otherwise the iterate it stalls at (the seed),
\* which is no root.
fsolve(mbc, y_x, n_x) ==
    IF HasRoot(mbc.K, mbc.g, mbc.M, y_x, n_x)
    THEN [isroot |-> TRUE, a |-> Root(mbc.K, mbc.g, mbc.M, y_x, n_x).a,
                           b |-> Root(mbc.K, mbc.g, mbc.M, y_x, n_x).b]
    ELSE [isroot |-> FALSE, a |-> y_x, b |-> n_x]

\* core.calculus._mass_boundary_conditions: the root when fn(root) is close to
\* zero, else None.
None == [kind |-> "None"]

mass_boundary_conditions_core(mbc, y_x, n_x) ==
    LET root == fsolve(mbc, y_x, n_x)
    IN  IF root.isroot THEN [kind |-> "root", a |-> root.a, b |-> root.b] ELSE None

\* ------------------------------------------------------------------ inputs
\* Slackline(name, m, g, K) values offered to the constructor; the last two
\* have a non-positive material constant.  Chain weighs 10 kg per metre,
\* about 2500 N over a 25 m gap.
Chain   == [name |-> "chain",   m |-> 10, g |-> 10, K |-> 250000]
NoMass  == [name |-> "nomass",  m |-> 0,  g |-> 10, K |-> 250000]
NoSpring == [name |-> "nospring", m |-> 10, g |-> 10, K |-> 0]
\* A line of 250 kg/m: over a 25 m gap its weight exceeds 50000 N.
Heavy   == [name |-> "heavy",   m |-> 250, g |-> 10, K |-> 250000]

\* (slackline, gap_length, anchor_tension) triples offered to Constraints().
Requests ==
    { <<Chain, 2500, 5000>>, <<Chain, 2500, 1000>>, <<Chain, 0, 5000>>,
      <<Chain, 2500, 0>>, <<NoMass, 150000, 5000>>, <<NoSpring, 2500, 5000>>,
      <<Heavy, 2500, 40000>> }

\* (position, mass) pairs offered to add_slackliner.
LoadInputs ==
    { <<0, 80>>, <<800, 80>>, <<2500, 80>>, <<800, 5000>>,
      <<-100, 80>>, <<2600, 80>>, <<800, 0>>, <<2495, 80>> }

\* The pairs offered on a Constraints object: all of them on the chain over
\* 25 m at 5000 N, the line whose searches reach the loads, and one light
\* slackliner on the others.
LoadInputsFor(sl, gap, tension) ==
    IF <<sl, gap, tension>> = <<Chain, 2500, 5000>> THEN LoadInputs
    ELSE {<<800, 80>>}

\* Which jump implementation the integrator is linked with: api.py imports
\* src.core.calculus (closures cached in mbcs), integrator.py imports .calculus.
Linkage == {"core", "legacy"}

\* ------------------------------------------------------------------- state
VARIABLES
    pc,             \* position of the single thread of control
    err,            \* exception that ended the last call, or "none"
    result,         \* value the last call returned (None, or a Rig)
    call,           \* the last call made on the object and its arguments
    calculus,       \* element of Linkage
    slackline, gap_length, anchor_tension, slackliners, mbcs,
                    \* attributes of the Constraints object
    rig,            \* locals of Constraints.rig
    inl,            \* locals of integrate_natural_length
    ilt,            \* locals of integrate_length_tension
    itg,            \* locals of integrate
    shot,           \* outcome of the last integrate call
    warned,         \* diagnostics printed during the current rig() call
    jumps,          \* load positions whose jump was evaluated in this integrate()
    wire,           \* what the last to_json call returned
    copy,           \* what the last from_json call returned
    dyn,            \* the DynamicSlackline built from the returned Rig
    sim             \* the last DynamicSlackline.simulate call and its outcome

vars == <<pc, err, result, call, calculus, slackline, gap_length, anchor_tension,
          slackliners, mbcs, rig, inl, ilt, itg, shot, warned, jumps, wire, copy,
          dyn, sim>>

constraints == <<calculus, slackline, gap_length, anchor_tension, slackliners, mbcs>>

NoRig  == [phase |-> "none", natural_length |-> 0, unloaded |-> << >>]
NoInl  == [a |-> 0, b |-> 0, anchor_tension |-> 0]
NoIlt  == [a |-> 0, b |-> 0, anchor_angle |-> 0, anchor_tension |-> 0,
           masses |-> << >>]
NoItg  == [masses |-> << >>, length_cutoff |-> 0, i |-> 0, L |-> 0,
           last_x |-> 0, x_end |-> 0, y_end |-> 0, nsol |-> -1, jump |-> "unset",
           st0 |-> [y |-> 0, n |-> 0, a |-> 0, b |-> 0], traj |-> << >>]
NoShot == [status |-> "none"]
NoCall == [op |-> "none", position |-> 0, mass |-> 0]
NoWire == [type |-> "none", of |-> "none", value |-> << >>]
NoCopy == [kind |-> "None", arg |-> "none", obj |-> << >>]
NoDyn  == [kind |-> "None"]
NoSim  == [status |-> "none"]

Init ==
    /\ pc = "new"
    /\ err = "none"
    /\ result = None
    /\ call = NoCall
    /\ calculus \in Linkage
    /\ slackline = Chain
    /\ gap_length = 0
    /\ anchor_tension = 0
    /\ slackliners = << >>
    /\ mbcs = << >>
    /\ rig = NoRig
    /\ inl = NoInl
    /\ ilt = NoIlt
    /\ itg = NoItg
    /\ shot = NoShot
    /\ warned = {}
    /\ jumps = << >>
    /\ wire = NoWire
    /\ copy = NoCopy
    /\ dyn = NoDyn
    /\ sim = NoSim

\* The caller holds a Constraints object and no call is in progress.
Between == pc \in {"idle", "done", "failed"}

\* -------------------------------------------------------------- Constraints
\* Constraints.__init__: stores its arguments, no validation.
Constraints_init ==
    /\ pc = "new"
    /\ \E r \in Requests :
         /\ slackline' = r[1]
         /\ gap_length' = r[2]
         /\ anchor_tension' = r[3]
    /\ slackliners' = << >>
    /\ mbcs' = << >>
    /\ pc' = "idle"
    /\ call' = [op |-> "Constraints", position |-> 0, mass |-> 0]
    /\ UNCHANGED <<err, result, calculus, rig, inl, ilt, itg, shot, warned, jumps>>
    /\ wire' = NoWire /\ copy' = NoCopy
    /\ dyn' = NoDyn /\ sim' = NoSim

RejectedByPosition(position, mass, gap) ==
    \/ position < 0
    \/ position > gap

\* The two checks that open add_slackliner.
Rejected(position, mass, gap) ==
    \/ position < 0
    \/ position > gap
    \/ mass <= 0

\* Constraints.add_slackliner(position, mass).
add_slackliner ==
    /\ Between
    /\ Len(slackliners) < MaxLoads
    /\ \E ld \in LoadInputsFor(slackline, gap_length, anchor_tension) :
         /\ call' = [op |-> "add_slackliner", position |-> ld[1], mass |-> ld[2]]
         /\ IF Rejected(ld[1], ld[2], gap_length)
            THEN /\ err' = "ValueError"
                 /\ UNCHANGED <<slackliners, mbcs>>
            ELSE /\ err' = "none"
                 /\ slackliners' = Append(slackliners, ld)
                 /\ mbcs' = Append(mbcs, mass_boundary_conditions(
                                ld[1], slackline.m, slackline.g, slackline.K, ld[2]))
    /\ pc' = "idle"
    /\ result' = None
    /\ rig' = NoRig /\ inl' = NoInl /\ ilt' = NoIlt /\ itg' = NoItg
    /\ shot' = NoShot /\ warned' = {} /\ jumps' = << >>
    /\ UNCHANGED <<calculus, slackline, gap_length, anchor_tension>>
    /\ wire' = NoWire /\ copy' = NoCopy
    /\ dyn' = NoDyn /\ sim' = NoSim

\* ------------------------------------------------------------------ integrate
\* Non-finite floating point results of the anchor interpolation.
Inf == 2 ^ 30
NaN == -(2 ^ 30)

\* masses = [m for m in masses if m[0] > 0.0]
FilterMasses(masses) == SelectSeq(masses, LAMBDA ld : ld[1] > 0)

ArgumentFilteredInPlace(masses) == FilterMasses(masses)

\* The list object the caller passed as masses, after integrate has filtered:
\* line 36 binds the local name to a new list, the argument keeps its entries.
ArgumentAfterFilter(masses) == masses

\* The for-loop header: L = 1000.0 on the last segment, else the distance to
\* the next mass (masses is 1-based here, i counts from 0 as in the code).
SegmentLength(masses, i, last_x) ==
    IF i = Len(masses) THEN LGuess ELSE masses[i + 1][1] - last_x

\* if L + last_x > length_cutoff: L = length_cutoff - last_x
CapLength(L, last_x, length_cutoff) ==
    IF L + last_x > length_cutoff THEN length_cutoff - last_x ELSE L

\* Initial conditions at the left anchor:
\*   y_x0 = tan(-anchor_angle),  n_x0 = sqrt(1 + y_x0**2) / (T/K + 1).
InitialState(sl, tension, anchor_angle) ==
    LET y_x0 == -Tan(anchor_angle)
        s    == Hyp(y_x0)
    IN  [y |-> 0, n |-> 0, a |-> y_x0,
         b |-> s - Div(s * tension, tension + sl.K)]

\* j = np.argmax(sol.y[0] > 0.0): index of the first sample above zero, and 0
\* when there is none.
RECURSIVE FirstAbove(_, _)
FirstAbove(sol, k) ==
    IF k > Len(sol) THEN 0
    ELSE IF sol[k].y > 0 THEN k - 1
    ELSE FirstAbove(sol, k + 1)

Samples(sol) ==
    [k \in 1..Len(sol) |->
        [x |-> sol[k].t, y |-> sol[k].y, n |-> sol[k].n,
         y_x |-> sol[k].a, n_x |-> sol[k].b]]

AnchorPointRepeated(last) ==
    [x |-> last.x, y |-> last.y, n |-> last.n, y_x |-> last.y_x, n_x |-> last.n_x]

\* The right anchor point added by linear interpolation from the last kept
\* sample: dx = -y[-1] / y_x[-1], y = 0.0, n = n[-1] + dx * n_x[-1].
AnchorPoint(last) ==
    IF last.y_x = 0
    THEN LET nf == IF last.y = 0 \/ last.n_x = 0 THEN NaN ELSE Inf
         IN  [x |-> IF last.y = 0 THEN NaN ELSE Inf, y |-> 0, n |-> nf,
              y_x |-> last.y_x, n_x |-> last.n_x]
    ELSE LET dx == Div(-last.y * UX, last.y_x)
         IN  [x |-> last.x + dx, y |-> 0,
              n |-> last.n + Div(dx * last.n_x, UX),
              y_x |-> last.y_x, n_x |-> last.n_x]

\* The jump at masses[i] as the integrator obtains it: [ok, a, b, ret]; ret
\* tells what the call handed back ("root", "None") or that it raised, and ok
\* is TRUE when the integrator can go on with y_x = a, n_x = b.
Jump(link, sl, mbc, mass, last) ==
    IF link = "legacy"
    THEN LET r == mass_boundary_conditions_legacy(
                      last.y, last.n, last.y_x, last.n_x, sl.m, sl.g, sl.K, mass)
         IN  [ok |-> ~r.raised, a |-> r.a, b |-> r.b,
              ret |-> IF r.raised THEN "raised" ELSE "root"]
    ELSE LET r == mass_boundary_conditions_core(mbc, last.y_x, last.n_x)
         IN  IF r.kind = "None" THEN [ok |-> FALSE, a |-> 0, b |-> 0, ret |-> "None"]
             ELSE [ok |-> TRUE, a |-> r.a, b |-> r.b, ret |-> "root"]

\* The start of the segment after a load with its height reset.
StartAfterLoadAtRest(last, jm) ==
    [y |-> 0, n |-> last.n, a |-> jm.a, b |-> jm.b]

\* integrate, after a load: y0 and n0 are the last sample's y and n, y_x0 and
\* n_x0 the jump solution.
StartAfterLoad(last, jm) ==
    [y |-> last.y, n |-> last.n, a |-> jm.a, b |-> jm.b]

\* Constraints.rig(), first statement: the unloaded search with the standing
\* anchor tension and the default masses=[].
StandingMassesKept(loads) == loads

\* The masses of rig()'s first search: the call passes none, so the default
\* masses=[] applies whatever self.slackliners holds.
StandingMasses(loads) == << >>

\* Constraints.rig(), up to the call of integrate_length_tension.
rig_call ==
    /\ Between
    /\ call' = [op |-> "rig", position |-> 0, mass |-> 0]
    /\ err' = "none"
    /\ result' = None
    /\ rig' = [phase |-> "unloaded", natural_length |-> 0, unloaded |-> << >>]
    /\ inl' = NoInl
    /\ ilt' = [a |-> AngleLower, b |-> AngleUpper, anchor_angle |-> 0,
               anchor_tension |-> anchor_tension,
               masses |-> StandingMasses(slackliners)]
    /\ itg' = NoItg
    /\ shot' = NoShot
    /\ warned' = {}
    /\ jumps' = << >>
    /\ pc' = "ilt_loop"
    /\ UNCHANGED constraints
    /\ wire' = NoWire /\ copy' = NoCopy
    /\ dyn' = NoDyn /\ sim' = NoSim

\* integrate_length_tension, top of `while True`: the midpoint angle, and
\* integrate() up to its segment loop (filter of the masses, initial
\* conditions, first for-loop header).
ilt_iterate ==
    /\ pc = "ilt_loop"
    /\ LET anchor_angle == (ilt.a + ilt.b) \div 2
           masses       == FilterMasses(ilt.masses)
       IN  /\ ilt' = [ilt EXCEPT !.anchor_angle = anchor_angle,
                                !.masses = ArgumentAfterFilter(ilt.masses)]
           \* rig() passes masses=self.slackliners: the same list object
           /\ slackliners' = IF rig.phase = "loaded"
                             THEN ArgumentAfterFilter(slackliners)
                             ELSE slackliners
           /\ warned' = IF \E k \in 1..Len(ilt.masses) : ilt.masses[k][1] = 0
                        THEN warned \cup {"removing mass at x=0"} ELSE warned
           /\ IF slackline.K = 0
              THEN \* anchor_tension / slackline.K
                   /\ pc' = "failed"
                   /\ err' = "ZeroDivisionError"
                   /\ itg' = NoItg
              ELSE /\ pc' = "int_loop"
                   /\ err' = err
                   /\ itg' = [masses |-> masses,
                              length_cutoff |-> gap_length,
                              i |-> 0,
                              L |-> SegmentLength(masses, 0, 0),
                              last_x |-> 0,
                              x_end |-> 0,
                              y_end |-> 0,
                              nsol |-> -1,
                              jump |-> "unset",
                              st0 |-> InitialState(slackline, ilt.anchor_tension,
                                                   anchor_angle),
                              traj |-> << >>]
    /\ shot' = NoShot
    /\ jumps' = << >>
    /\ UNCHANGED <<result, call, calculus, slackline, gap_length, anchor_tension,
                   mbcs, rig, inl>>
    /\ UNCHANGED <<wire, copy, dyn, sim>>

TooLongStrictly(i, nmasses, L, last_x, length_cutoff) ==
    i = nmasses /\ L + last_x > length_cutoff

\* if i == len(masses) and L + last_x >= length_cutoff: raise SlacklineTooLongError
TooLong(i, nmasses, L, last_x, length_cutoff) ==
    i = nmasses /\ L + last_x >= length_cutoff

\* integrate, one pass through the body of `while True` for segment i.
integrate_attempt ==
    /\ pc = "int_loop"
    /\ \E sol \in {solve_ivp(slackline, itg.last_x,
                   CapLength(itg.L, itg.last_x, itg.length_cutoff), itg.st0)} :
       LET L    == CapLength(itg.L, itg.last_x, itg.length_cutoff)
           at   == [itg EXCEPT !.L = L, !.x_end = itg.last_x + L,
                               !.y_end = IF sol = << >> THEN 0 ELSE Last(sol).y,
                               !.nsol = Len(sol)]
       IN
       IF sol = << >>
       THEN \* sol.y[0][-1] of an empty solution
            /\ pc' = "failed" /\ err' = "IndexError"
            /\ itg' = at
            /\ UNCHANGED <<shot, warned, jumps>>
       ELSE IF Last(sol).y >= 0
       THEN LET j    == FirstAbove(sol, 1)
                kept == itg.traj \o Prefix(Samples(sol), j)
            IN  IF kept = << >>
                THEN \* y[-1] of an empty array
                     /\ pc' = "failed" /\ err' = "IndexError"
                     /\ itg' = at
                     /\ UNCHANGED <<shot, warned, jumps>>
                ELSE /\ pc' = "int_done" /\ err' = err
                     /\ itg' = [at EXCEPT !.traj = Append(kept, AnchorPoint(Last(kept)))]
                     /\ shot' = [status |-> "returned"]
                     /\ warned' = IF itg.i < Len(itg.masses)
                                  THEN warned \cup {"masses were ignored"}
                                  ELSE warned
                     /\ UNCHANGED jumps
       ELSE IF itg.i = Len(itg.masses)
       THEN IF TooLong(itg.i, Len(itg.masses), L, itg.last_x, itg.length_cutoff)
            THEN /\ pc' = "int_done" /\ err' = err
                 /\ itg' = at
                 /\ shot' = [status |-> "SlacklineTooLongError"]
                 /\ warned' = warned \cup {"slackline is too long"}
                 /\ UNCHANGED jumps
            ELSE /\ pc' = "int_loop" /\ err' = err
                 /\ itg' = [at EXCEPT !.L = 2 * L]
                 /\ UNCHANGED <<shot, warned, jumps>>
       ELSE LET traj == itg.traj \o Samples(sol)
                last == Last(traj)
                jm   == Jump(calculus, slackline,
                             mass_boundary_conditions(
                                 itg.masses[itg.i + 1][1], slackline.m,
                                 slackline.g, slackline.K, itg.masses[itg.i + 1][2]),
                             itg.masses[itg.i + 1][2], last)
            IN  /\ jumps' = Append(jumps, itg.masses[itg.i + 1][1])
                /\ UNCHANGED <<shot, warned>>
                /\ IF jm.ok
                   THEN /\ pc' = "int_loop" /\ err' = err
                        /\ itg' = [at EXCEPT
                                     !.jump = jm.ret,
                                     !.traj = traj,
                                     !.last_x = last.x,
                                     !.st0 = StartAfterLoad(last, jm),
                                     !.i = itg.i + 1,
                                     !.L = SegmentLength(itg.masses, itg.i + 1, last.x)]
                   ELSE /\ pc' = "failed"
                        /\ err' = IF calculus = "legacy" THEN "Exception"
                                  ELSE "TypeError"
                        /\ itg' = [at EXCEPT !.jump = jm.ret, !.traj = traj,
                                               !.last_x = last.x]
    /\ UNCHANGED <<result, call, constraints, rig, inl, ilt>>
    /\ UNCHANGED <<wire, copy, dyn, sim>>

\* ------------------------------------------------- integrate_length_tension
WithinGapOneSided(x_final, gap) == x_final - gap < XTol

\* np.abs(x[-1] - gap_length) < 1e-1
WithinGap(x_final, gap) == Abs(x_final - gap) < XTol

\* integrate_length_tension, after integrate() returned or raised
\* SlacklineTooLongError: return the trajectory or move one bound.
ilt_check ==
    /\ pc = "int_done"
    /\ IF shot.status = "SlacklineTooLongError"
       THEN /\ ilt' = [ilt EXCEPT !.b = ilt.anchor_angle]
            /\ pc' = "ilt_loop"
       ELSE IF WithinGap(Last(itg.traj).x, gap_length)
       THEN /\ ilt' = ilt
            /\ pc' = "ilt_done"
       ELSE IF Last(itg.traj).x > gap_length
       THEN /\ ilt' = [ilt EXCEPT !.b = ilt.anchor_angle]
            /\ pc' = "ilt_loop"
       ELSE /\ ilt' = [ilt EXCEPT !.a = ilt.anchor_angle]
            /\ pc' = "ilt_loop"
    /\ UNCHANGED <<err, result, call, constraints, rig, inl, itg, shot, warned, jumps>>
    /\ UNCHANGED <<wire, copy, dyn, sim>>

\* ------------------------------------------------------------------- Rig
\* np.arctan in fixed point (1e-4 rad): x/(1 + 0.28 x^2) on [-1, 1] and
\* pi/2 - arctan(1/x) outside.
ArctanUnit(a) == Div(a * FP, FP + Div(28 * Div(a * a, FP), 100))

Arctan(a) ==
    IF Abs(a) <= FP THEN ArctanUnit(a)
    ELSE (IF a > 0 THEN 15708 ELSE -15708) - ArctanUnit(Div(FP * FP, a))

\* The six arrays of Rig(x, n, l, y, T, A) from the trajectory, with
\* dx = x[1] - x[0], dl = sqrt(1 + y_x**2) * dx, l = cumsum(dl),
\* dn = n_x * dx, T = K * (dl/dn - 1), A = |arctan(y_x)| * 180/pi (0.01 deg).
RECURSIVE Cumsum(_, _)
Cumsum(seq, k) == IF k = 0 THEN 0 ELSE Cumsum(seq, k - 1) + seq[k]

MakeRig(sl, traj) ==
    LET dx == traj[2].x - traj[1].x
        dl == [k \in 1..Len(traj) |-> Div(Hyp(traj[k].y_x) * dx, UX)]
    IN  [kind |-> "Rig",
         x |-> [k \in 1..Len(traj) |-> traj[k].x],
         n |-> [k \in 1..Len(traj) |-> traj[k].n],
         l |-> [k \in 1..Len(traj) |-> Cumsum(dl, k)],
         y |-> [k \in 1..Len(traj) |-> traj[k].y],
         T |-> [k \in 1..Len(traj) |->
                  IF dx = 0 \/ traj[k].n_x = 0 THEN NaN
                  ELSE Div(sl.K * (Hyp(traj[k].y_x) - traj[k].n_x), traj[k].n_x)],
         A |-> [k \in 1..Len(traj) |-> Div(Abs(Arctan(traj[k].y_x)) * 573, 1000)]]

\* Constraints.rig() after the unloaded search returned: with loads, take
\* natural_length = n[-1] and enter integrate_natural_length; without, build
\* the Rig.
rig_unloaded ==
    /\ pc = "ilt_done"
    /\ rig.phase = "unloaded"
    /\ IF Len(slackliners) > 0
       THEN /\ rig' = [phase |-> "loaded",
                       natural_length |-> Last(itg.traj).n,
                       unloaded |-> itg.traj]
            /\ inl' = [a |-> Div(Last(itg.traj).n * slackline.m * slackline.g, FP),
                       b |-> TensionUpper,
                       anchor_tension |-> 0]
            /\ pc' = "inl_loop"
            /\ result' = result
       ELSE /\ rig' = [rig EXCEPT !.unloaded = itg.traj]
            /\ inl' = inl
            /\ pc' = "done"
            /\ result' = MakeRig(slackline, itg.traj)
    /\ UNCHANGED <<err, call, constraints, ilt, itg, shot, warned, jumps>>
    /\ UNCHANGED <<wire, copy, dyn, sim>>

\* ------------------------------------------------- integrate_natural_length
\* integrate_natural_length, top of `while True`: the midpoint tension and the
\* call of integrate_length_tension with the loads.
inl_iterate ==
    /\ pc = "inl_loop"
    /\ inl' = [inl EXCEPT !.anchor_tension = (inl.a + inl.b) \div 2]
    /\ ilt' = [a |-> AngleLower, b |-> AngleUpper, anchor_angle |-> 0,
               anchor_tension |-> (inl.a + inl.b) \div 2,
               masses |-> slackliners]
    /\ pc' = "ilt_loop"
    /\ UNCHANGED <<err, result, call, constraints, rig, itg, shot, warned, jumps>>
    /\ UNCHANGED <<wire, copy, dyn, sim>>

WithinNaturalOneSided(n_final, natural_length) == n_final - natural_length < NTol

\* np.abs(n[-1] - natural_length) < 1e-1
WithinNatural(n_final, natural_length) == Abs(n_final - natural_length) < NTol

\* integrate_natural_length after the inner search returned: return to rig(),
\* which builds the Rig, or move one bound.
inl_check ==
    /\ pc = "ilt_done"
    /\ rig.phase = "loaded"
    /\ IF WithinNatural(Last(itg.traj).n, rig.natural_length)
       THEN /\ inl' = inl
            /\ pc' = "done"
            /\ result' = MakeRig(slackline, itg.traj)
       ELSE IF Last(itg.traj).n > rig.natural_length
       THEN /\ inl' = [inl EXCEPT !.a = inl.anchor_tension]
            /\ pc' = "inl_loop"
            /\ result' = result
       ELSE /\ inl' = [inl EXCEPT !.b = inl.anchor_tension]
            /\ pc' = "inl_loop"
            /\ result' = result
    /\ UNCHANGED <<err, call, constraints, rig, ilt, itg, shot, warned, jumps>>
    /\ UNCHANGED <<wire, copy, dyn, sim>>

\* ----------------------------------------------------------------------- JSON
\* json.dumps writes a number as its decimal digits, and the tokens NaN and
\* Infinity for the non-finite floats (allow_nan is left at its default).
RECURSIVE Digits(_)
Digits(v) == IF v < 10 THEN <<v>> ELSE Append(Digits(v \div 10), v % 10)

dumps_number(v) ==
    IF v = NaN THEN [lit |-> "NaN", neg |-> FALSE, digits |-> << >>]
    ELSE IF v = Inf THEN [lit |-> "Infinity", neg |-> FALSE, digits |-> << >>]
    ELSE [lit |-> "number", neg |-> v < 0, digits |-> Digits(Abs(v))]

RECURSIVE DigitsValue(_)
DigitsValue(d) ==
    IF Len(d) = 0 THEN 0 ELSE 10 * DigitsValue(Prefix(d, Len(d) - 1)) + Last(d)

\* json.loads reads the token back into a float.
loads_number(tok) ==
    IF tok.lit = "NaN" THEN NaN
    ELSE IF tok.lit = "Infinity" THEN Inf
    ELSE IF tok.neg THEN -DigitsValue(tok.digits) ELSE DigitsValue(tok.digits)

dumps_list(a) == [k \in 1..Len(a) |-> dumps_number(a[k])]
loads_list(a) == [k \in 1..Len(a) |-> loads_number(a[k])]

\* Slackline.to_box: the four fields under their own names.
to_box(sl) == [name |-> sl.name, m |-> sl.m, g |-> sl.g, K |-> sl.K]

\* Slackline.from_box.
from_box(box) == [name |-> box.name, m |-> box.m, g |-> box.g, K |-> box.K]

\* Rig.to_dict: every array as a list under its own key.
to_dict(r) == [x |-> r.x, n |-> r.n, l |-> r.l, y |-> r.y, T |-> r.T, A |-> r.A]

\* Rig.to_json: json.dumps of to_dict().
Rig_to_json(r) ==
    LET d == to_dict(r)
    IN  [type |-> "str", of |-> "Rig",
         value |-> [x |-> dumps_list(d.x), n |-> dumps_list(d.n),
                    l |-> dumps_list(d.l), y |-> dumps_list(d.y),
                    T |-> dumps_list(d.T), A |-> dumps_list(d.A)]]

Rig_from_json_crossed(json) ==
    LET box == json.value
    IN  [kind |-> "Rig",
         x |-> loads_list(box.x), n |-> loads_list(box.l),
         l |-> loads_list(box.n), y |-> loads_list(box.y),
         T |-> loads_list(box.T), A |-> loads_list(box.A)]

\* Rig.from_json: Box.from_json parses the text, each key becomes an array.
Rig_from_json(json) ==
    LET box == json.value
    IN  [kind |-> "Rig",
         x |-> loads_list(box.x), n |-> loads_list(box.n),
         l |-> loads_list(box.l), y |-> loads_list(box.y),
         T |-> loads_list(box.T), A |-> loads_list(box.A)]

\* Constraints.to_json: Box({...}).to_json(); the (position, mass) tuples are
\* written as two-element arrays.
Constraints_to_json(sl, gap, tension, loads) ==
    [type |-> "str", of |-> "Constraints",
     value |-> [slackline |-> [name |-> to_box(sl).name,
                               m |-> dumps_number(to_box(sl).m),
                               g |-> dumps_number(to_box(sl).g),
                               K |-> dumps_number(to_box(sl).K)],
                gap_length |-> dumps_number(gap),
                anchor_tension |-> dumps_number(tension),
                slackliners |-> [k \in 1..Len(loads) |-> dumps_list(loads[k])]]]

\* What a caller gets who parses the text with the json module first.
json_loads(text) ==
    [type |-> "dict", of |-> text.of,
     value |-> [slackline |-> [name |-> text.value.slackline.name,
                               m |-> loads_number(text.value.slackline.m),
                               g |-> loads_number(text.value.slackline.g),
                               K |-> loads_number(text.value.slackline.K)],
                gap_length |-> loads_number(text.value.gap_length),
                anchor_tension |-> loads_number(text.value.anchor_tension),
                slackliners |-> [k \in 1..Len(text.value.slackliners) |->
                                   loads_list(text.value.slackliners[k])]]]

\* The loop of from_json: add_slackliner for every (position, mass) of the box.
RECURSIVE AddSlackliners(_, _)
AddSlackliners(c, loads) ==
    IF Len(loads) = 0 \/ c.kind # "Constraints" THEN c
    ELSE LET ld == loads[1]
         IN  IF Rejected(ld[1], ld[2], c.gap_length)
             THEN [c EXCEPT !.kind = "ValueError"]
             ELSE AddSlackliners(
                    [c EXCEPT !.slackliners = Append(@, <<ld[1], ld[2]>>),
                              !.mbcs = Append(@, mass_boundary_conditions(
                                  ld[1], c.slackline.m, c.slackline.g,
                                  c.slackline.K, ld[2]))],
                    Tail(loads))

\* Constraints.from_json(json).  The parameter is named json, so inside the
\* method that name is the argument and not the json module: for a str
\* argument, json.loads is an attribute lookup on the str.
Constraints_from_json(json) ==
    IF json.type = "str"
    THEN [kind |-> "AttributeError", slackline |-> NoMass, gap_length |-> 0,
          anchor_tension |-> 0, slackliners |-> << >>, mbcs |-> << >>]
    ELSE LET box == json.value
         IN  AddSlackliners(
                [kind |-> "Constraints",
                 slackline |-> from_box(box.slackline),
                 gap_length |-> box.gap_length,
                 anchor_tension |-> box.anchor_tension,
                 slackliners |-> << >>, mbcs |-> << >>],
                box.slackliners)

\* c.to_json() on the Constraints object.
to_json_constraints ==
    /\ Between
    /\ pc # "new"
    /\ wire' = Constraints_to_json(slackline, gap_length, anchor_tension, slackliners)
    /\ copy' = NoCopy
    /\ dyn' = NoDyn /\ sim' = NoSim
    /\ UNCHANGED <<pc, err, result, rig, inl, ilt, itg, shot, warned, jumps>>
    /\ UNCHANGED constraints
    /\ call' = [op |-> "Constraints.to_json", position |-> 0, mass |-> 0]

\* r.to_json() on the Rig that rig() returned.
to_json_rig ==
    /\ pc = "done"
    /\ result.kind = "Rig"
    /\ wire' = Rig_to_json(result)
    /\ copy' = NoCopy
    /\ dyn' = NoDyn /\ sim' = NoSim
    /\ UNCHANGED <<pc, err, result, rig, inl, ilt, itg, shot, warned, jumps>>
    /\ UNCHANGED constraints
    /\ call' = [op |-> "Rig.to_json", position |-> 0, mass |-> 0]

\* Constraints.from_json on the text of to_json, or on its parsed form.
from_json_constraints ==
    /\ wire.of = "Constraints"
    /\ copy.kind = "None"
    /\ \E json \in {wire, json_loads(wire)} :
         copy' = [kind |-> Constraints_from_json(json).kind,
                  arg |-> json.type,
                  obj |-> Constraints_from_json(json)]
    /\ UNCHANGED <<pc, err, result, rig, inl, ilt, itg, shot, warned, jumps,
                   wire, dyn, sim>>
    /\ UNCHANGED constraints
    /\ call' = [op |-> "Constraints.from_json", position |-> 0, mass |-> 0]

\* Rig.from_json on the text of to_json.
from_json_rig ==
    /\ wire.of = "Rig"
    /\ copy.kind = "None"
    /\ copy' = [kind |-> "Rig", arg |-> wire.type, obj |-> Rig_from_json(wire)]
    /\ UNCHANGED <<pc, err, result, rig, inl, ilt, itg, shot, warned, jumps,
                   wire, dyn, sim>>
    /\ UNCHANGED constraints
    /\ call' = [op |-> "Rig.from_json", position |-> 0, mass |-> 0]

\* ------------------------------------------------------------------- dynamics
\* Units of the dynamic part: lengths and displacements in 1e-4 m (x in
\* centimetres, as in the Rig), masses in 1e-2 kg, forces in 1e-2 N, velocities
\* in 1e-4 m/s, accelerations in 1e-2 m/s^2, times in milliseconds.

\* np.linspace(first, last, n)[k - 1], k = 1 .. n.
NodeX(first, last, n, k) ==
    IF k = n THEN last ELSE first + Div((k - 1) * (last - first), n - 1)

\* np.interp requires increasing sample points; rig.x repeats a point at a
\* load and is otherwise increasing when the loads are in order.
Increasing(xp) == \A k \in 1..(Len(xp) - 1) : xp[k] <= xp[k + 1]

\* np.interp(x, xp, fp) for one x: linear between the two samples around x.
interp(x, xp, fp) ==
    IF x <= xp[1] THEN fp[1]
    ELSE IF x >= Last(xp) THEN Last(fp)
    ELSE LET k == CHOOSE j \in 1..(Len(xp) - 1) : xp[j] <= x /\ x < xp[j + 1]
         IN  fp[k] + Div((fp[k + 1] - fp[k]) * (x - xp[k]), xp[k + 1] - xp[k])

\* np.gradient(f, x)[k - 1]: central difference inside, one-sided at the ends;
\* the slope is in units of 1e-4.
gradient(f, x, k) ==
    IF k = 1 THEN Div((f[2] - f[1]) * UX, x[2] - x[1])
    ELSE IF k = Len(f)
         THEN Div((f[k] - f[k - 1]) * UX, x[k] - x[k - 1])
         ELSE Div((f[k + 1] - f[k - 1]) * UX, x[k + 1] - x[k - 1])

\* DynamicSlackline.__init__(rig, slackline, n_nodes, damping_ratio): the
\* object's attributes.
DynamicSlackline(r, sl, n_nodes, damping_ratio) ==
    LET x    == [k \in 1..n_nodes |-> NodeX(r.x[1], Last(r.x), n_nodes, k)]
        y_eq == [k \in 1..n_nodes |-> interp(x[k], r.x, r.y)]
        n_eq == [k \in 1..n_nodes |-> interp(x[k], r.x, r.n)]
        dx   == x[2] - x[1]
        dl_eq == [k \in 1..n_nodes |-> Div(Hyp(gradient(y_eq, x, k)) * dx, UX)]
    IN  [kind |-> "DynamicSlackline",
         slackline |-> sl,
         n_nodes |-> n_nodes,
         damping_ratio |-> damping_ratio,
         x |-> x,
         y_eq |-> y_eq,
         n_eq |-> n_eq,
         dx |-> dx,
         dl_eq |-> dl_eq,
         segment_mass |-> [k \in 1..n_nodes |-> Div(sl.m * dl_eq[k], UX)],
         dn_eq |-> [k \in 1..n_nodes |-> Div(gradient(n_eq, x, k) * dx, UX)]]

\* dyn = DynamicSlackline(rig, slackline, n_nodes, damping_ratio) on the Rig
\* that rig() returned, with the material of the Constraints or another one.
\* Dynamic objects are built on rigs that carry at most one slackliner.
DynamicSlackline_init ==
    /\ pc = "done"
    /\ result.kind = "Rig"
    /\ Increasing(result.x)
    /\ Len(slackliners) <= 1
    /\ dyn.kind = "None"
    /\ \E n_nodes \in 3..NumNodes, sl \in {slackline, NoMass} :
         dyn' = DynamicSlackline(result, sl, n_nodes, DampingRatio)
    /\ sim' = NoSim
    /\ wire' = NoWire /\ copy' = NoCopy
    /\ UNCHANGED <<pc, err, result, rig, inl, ilt, itg, shot, warned, jumps>>
    /\ UNCHANGED constraints
    /\ call' = [op |-> "DynamicSlackline", position |-> 0, mass |-> 0]

\* p * FP / q for 0 < q, in two stages that stay inside 32 bits.
Ratio(p, q) ==
    LET hi == Div(p * UX, q)
    IN  hi * UX + Div((p * UX - hi * q) * UX, q)

\* np.sqrt(dx**2 + dy**2) of one segment, in 1e-4 m (dx in centimetres).
SegmentArc(dy, dx) == Div(Hyp(Div(dy * UX, dx)) * dx, UX)

\* The strain clipped to [-0.5, 4.0].
ClippedStrainWide(dl, dn) ==
    IF dn = 0 THEN 4 * FP
    ELSE IF dn < 0 THEN -(FP \div 2)
    ELSE IF dl - dn >= 4 * dn THEN 4 * FP
    ELSE IF 2 * (dl - dn) <= -dn THEN -(FP \div 2)
    ELSE Ratio(dl - dn, dn)

\* np.clip((dl - dn) / dn, -0.5, 2.0) in units of 1e-4; dl > 0.  A zero dn
\* gives +inf and a negative dn a quotient below -1, both clipped.
ClippedStrain(dl, dn) ==
    IF dn = 0 THEN 2 * FP
    ELSE IF dn < 0 THEN -(FP \div 2)
    ELSE IF dl - dn >= 2 * dn THEN 2 * FP
    ELSE IF 2 * (dl - dn) <= -dn THEN -(FP \div 2)
    ELSE Ratio(dl - dn, dn)

\* dy of a segment between the heights p (right node) and q (left node); not
\* finite when either height is not.
Rise(p, q) == IF p \in {Inf, NaN} \/ q \in {Inf, NaN} THEN NaN ELSE p - q

\* `dl > 1e-10 and np.isfinite(dl)` negated: the segment is left out.
SegmentSkipped(d, dy) == dy = NaN \/ SegmentArc(dy, d.dx) <= 0

\* T = K * strain of a segment that is not left out, in N.
SegmentTension(d, dy, dn) ==
    Div(Div(d.slackline.K, UX) * ClippedStrain(SegmentArc(dy, d.dx), dn), UX)

\* T * sin(theta) of the segment with rise dy and natural length dn: the
\* segment's tension times the sine of its angle, in 1e-2 N.
SegmentPull(d, dy, dn) ==
    IF SegmentSkipped(d, dy) THEN 0
    ELSE LET T   == SegmentTension(d, dy, dn)
             sin == Ratio(dy, SegmentArc(dy, d.dx))
             hi  == Div(sin, UX)
         IN  T * hi + Div(T * (sin - hi * UX), UX)

\* The tension loop of equations_of_motion for the interior node i (1-based):
\* forces[i] += T_left*sin_theta_left; forces[i] -= T_right*sin_theta_right.
TensionForce(d, y, i) ==
    SegmentPull(d, Rise(y[i], y[i - 1]), d.dn_eq[i - 1])
        - SegmentPull(d, Rise(y[i + 1], y[i]), d.dn_eq[i])

\* damping_coeff[i] = damping_ratio * 2 * sqrt(K * segment_mass / dn_eq), in
\* 1e-2 kg/s; finite only for dn_eq[i] > 0.
DampingCoeff(d, i) ==
    d.damping_ratio * 2
        * Isqrt(Div(Div(d.slackline.K, UX) * d.segment_mass[i], d.dn_eq[i]) * UX) * 10

\* forces[i] before the division by the mass, for an interior node whose
\* terms are all finite: tension, gravity, damping, external force.
NetForce(d, y, y_dot, ext, i) ==
    TensionForce(d, y, i)
        - d.segment_mass[i] * d.slackline.g
        - Div(DampingCoeff(d, i) * y_dot[i], FP)
        + ext[i]

\* Whether y_ddot[i] = forces[i] / segment_mass[i] is a finite number.
FiniteAt(d, ext, i) ==
    /\ d.dn_eq[i] > 0
    /\ d.segment_mass[i] # 0
    /\ ext[i] # Inf /\ ext[i] # NaN

\* y_ddot of equations_of_motion: forces / segment_mass, then y_ddot[0] = 0
\* and y_ddot[-1] = 0 whatever the forces at the two anchors are.
Acceleration(d, y, y_dot, ext) ==
    [i \in 1..d.n_nodes |->
        IF i = 1 \/ i = d.n_nodes THEN 0
        ELSE IF ~FiniteAt(d, ext, i) THEN NaN
        ELSE Div(NetForce(d, y, y_dot, ext, i) * UX, d.segment_mass[i])]

FiniteState(a) == \A i \in 1..Len(a) : a[i] # NaN

\* External forcing functions f(t, x, y) offered to simulate, by name: none,
\* a constant force on the left anchor node, a constant force on the second
\* node, and a force on the second node that overflows from BlowTime on.
Forcings == {"None", "anchor", "inner", "late"}
PushForce == 5000
BlowTime == 75
slackliner_forces(kind, t, n_nodes) ==
    [i \in 1..n_nodes |->
        IF kind = "anchor" /\ i = 1 THEN PushForce
        ELSE IF kind = "inner" /\ i = 2 THEN -PushForce
        ELSE IF kind = "late" /\ i = 2 /\ t >= BlowTime THEN Inf
        ELSE 0]

\* Initial perturbations offered to simulate: None, a lift of every node
\* including the two anchors, and a pluck of the second node only.
Lift == 500
Perturbations(n_nodes) ==
    { << >>,
      [i \in 1..n_nodes |-> Lift],
      [i \in 1..n_nodes |-> IF i = 2 THEN 2 * Lift ELSE 0] }

\* A callable initial_perturbation: a ramp of 2 mm per metre of x.
Ramp(x) == Div(x, 5)

CalledOnNodeIndex(x) == [i \in 1..Len(x) |-> Ramp(i)]

\* DynamicConstraints.simulate: pert = initial_perturbation(dyn.x) for a
\* callable initial_perturbation.
CallPerturbation(x) == [i \in 1..Len(x) |-> Ramp(x[i])]

AnchorsLeftPerturbed(y0, y_eq) == y0

\* y0[0] = self.y_eq[0]; y0[-1] = self.y_eq[-1]
PinAnchors(y0, y_eq) ==
    [y0 EXCEPT ![1] = y_eq[1], ![Len(y0)] = y_eq[Len(y_eq)]]

\* state0 of simulate: positions and velocities.
InitialConditions(d, pert) ==
    LET y0 == IF pert = << >> THEN d.y_eq
              ELSE [i \in 1..d.n_nodes |-> d.y_eq[i] + pert[i]]
    IN  [y |-> PinAnchors(y0, d.y_eq), v |-> [i \in 1..d.n_nodes |-> 0]]

\* np.linspace(t_span[0], t_span[1], n_frames)[k - 1], in milliseconds.
FrameTime(t_span, n_frames, k) ==
    IF k = n_frames THEN t_span[2]
    ELSE t_span[1] + Div((k - 1) * (t_span[2] - t_span[1]), n_frames - 1)

\* One step of h milliseconds of the explicit solver with acceleration a.
DynStep(st, a, h) ==
    LET dv == [i \in 1..Len(a) |-> Div(a[i] * h, 10)]
    IN  [y |-> [i \in 1..Len(a) |-> st.y[i] + Div((2 * st.v[i] + dv[i]) * h, 2000)],
         v |-> [i \in 1..Len(a) |-> st.v[i] + dv[i]]]

\* solve_ivp(fun, t_span, state0, t_eval=...): the frames [t, y, v].  A frame
\* is emitted when the step that reaches it succeeds; the solver stops at the
\* first step on which the right-hand side is not finite, so the result may
\* be short or empty.
RECURSIVE DynSolve(_, _, _, _, _, _, _)
DynSolve(d, kind, t_span, n_frames, k, st, acc) ==
    LET t    == FrameTime(t_span, n_frames, k)
        here == Append(acc, [t |-> t, y |-> st.y, v |-> st.v])
        a    == Acceleration(d, st.y, st.v, slackliner_forces(kind, t, d.n_nodes))
    IN  IF k = n_frames THEN here
        ELSE IF ~FiniteState(a) THEN (IF k = 1 THEN << >> ELSE here)
        ELSE LET t1  == FrameTime(t_span, n_frames, k + 1)
                 nxt == DynStep(st, a, t1 - t)
                 a1  == Acceleration(d, nxt.y, nxt.v,
                                     slackliner_forces(kind, t1, d.n_nodes))
             IN  IF ~FiniteState(a1) THEN (IF k = 1 THEN << >> ELSE here)
                 ELSE DynSolve(d, kind, t_span, n_frames, k + 1, nxt, here)

\* The time span (t_start, t_end) of the simulations, in milliseconds.
TSpan == <<0, 10 * 10>>

\* dyn.simulate(t_span, slackliner_forces, n_frames, initial_perturbation):
\* returns (sol.t, sol.y[:n, :].T) of whatever the solver produced, and fails
\* only where sol.y is the empty list and cannot be sliced.
simulate ==
    /\ dyn.kind = "DynamicSlackline"
    /\ sim.status = "none"
    /\ \E n_frames \in 2..NumFrames, kind \in Forcings, callable \in BOOLEAN :
       \E pert \in (IF callable THEN {CallPerturbation(dyn.x)}
                    ELSE Perturbations(dyn.n_nodes)) :
         \E sol \in {DynSolve(dyn, kind, TSpan, n_frames, 1,
                              InitialConditions(dyn, pert), << >>)} :
           sim' = [status |-> IF sol = << >> THEN "TypeError" ELSE "returned",
                   n_frames |-> n_frames,
                   t_span |-> TSpan,
                   forcing |-> kind,
                   callable |-> callable,
                   perturbation |-> pert,
                   t |-> [k \in 1..Len(sol) |-> sol[k].t],
                   y |-> [k \in 1..Len(sol) |-> sol[k].y],
                   y_dot |-> [k \in 1..Len(sol) |-> sol[k].v]]
    /\ UNCHANGED <<pc, err, result, rig, inl, ilt, itg, shot, warned, jumps,
                   wire, copy, dyn>>
    /\ UNCHANGED constraints
    /\ call' = [op |-> "DynamicSlackline.simulate", position |-> 0, mass |-> 0]

\* Node heights offered to a direct call of equations_of_motion: the
\* equilibrium, the second node raised by three node spacings, and the second
\* node at inf or nan.
NodePositions(d) ==
    { d.y_eq,
      [d.y_eq EXCEPT ![2] = d.y_eq[2] + 3 * d.dx * UX],
      [d.y_eq EXCEPT ![2] = Inf],
      [d.y_eq EXCEPT ![2] = NaN] }

\* dyn.equations_of_motion(t, state) with zero velocities and no external
\* force: the tension of each segment [k, k+1] and the tension force on each
\* interior node.
equations_of_motion ==
    /\ dyn.kind = "DynamicSlackline"
    /\ sim.status = "none"
    /\ \E y \in NodePositions(dyn) :
         sim' = [status |-> "evaluated",
                 state |-> y,
                 skipped |-> [k \in 1..(dyn.n_nodes - 1) |->
                                SegmentSkipped(dyn, Rise(y[k + 1], y[k]))],
                 tension |-> [k \in 1..(dyn.n_nodes - 1) |->
                                IF SegmentSkipped(dyn, Rise(y[k + 1], y[k])) THEN 0
                                ELSE SegmentTension(dyn, Rise(y[k + 1], y[k]),
                                                    dyn.dn_eq[k])],
                 pull |-> [i \in 1..dyn.n_nodes |->
                             IF i = 1 \/ i = dyn.n_nodes THEN 0
                             ELSE TensionForce(dyn, y, i)]]
    /\ UNCHANGED <<pc, err, result, rig, inl, ilt, itg, shot, warned, jumps,
                   wire, copy, dyn>>
    /\ UNCHANGED constraints
    /\ call' = [op |-> "DynamicSlackline.equations_of_motion", position |-> 0, mass |-> 0]

\* ------------------------------------------------------------ specification
Next ==
    \/ Constraints_init
    \/ add_slackliner
    \/ rig_call
    \/ ilt_iterate
    \/ integrate_attempt
    \/ ilt_check
    \/ rig_unloaded
    \/ inl_iterate
    \/ inl_check
    \/ to_json_constraints
    \/ to_json_rig
    \/ from_json_constraints
    \/ from_json_rig
    \/ DynamicSlackline_init
    \/ equations_of_motion
    \/ simulate

Spec == Init /\ [][Next]_vars

\* The steps of one rig() call.  The call runs on the caller's thread without
\* yielding, so a step of it that stays enabled is taken.
Solve ==
    \/ ilt_iterate
    \/ integrate_attempt
    \/ ilt_check
    \/ rig_unloaded
    \/ inl_iterate
    \/ inl_check

FairSpec == Init /\ [][Next]_vars /\ WF_vars(Solve)

\* ===================================================================== claims
\* ------------------------------------------------------------------------ C1
\* C1: integrate_length_tension returns only with |x_final - gap_length| below
\* the 0.1 m tolerance (XTol), and returns as soon as a shot lands inside it;
\* the Rig that rig() builds without loads therefore ends within XTol of the gap.
C1_ReturnsOnlyWithinTolerance ==
    [][ /\ pc' = "ilt_done" =>
              /\ Last(itg'.traj).x - gap_length' < XTol
              /\ gap_length' - Last(itg'.traj).x < XTol
        /\ pc' = "done" =>
              /\ Last(result'.x) - gap_length' < XTol
              /\ gap_length' - Last(result'.x) < XTol
        /\ ( /\ pc = "int_done" /\ shot.status = "returned"
             /\ Last(itg.traj).x - gap_length < XTol
             /\ gap_length - Last(itg.traj).x < XTol ) => pc' = "ilt_done"
      ]_vars

\* The search has bisected at least once and returned short of the gap.
C1_Witness ==
    /\ pc = "ilt_done"
    /\ ilt.a > AngleLower \/ ilt.b < AngleUpper
    /\ Last(itg.traj).x < gap_length

C3_AnchoredAtBothEnds ==
    /\ (pc = "int_done" /\ shot.status = "returned") =>
          /\ itg.traj[1].y = 0
          /\ itg.traj[1].n = 0
          /\ Last(itg.traj).y = 0
    /\ pc = "done" =>
          /\ result.y[1] = 0
          /\ result.n[1] = 0
          /\ Last(result.y) = 0

\* A returned trajectory that crossed a load and whose last integrated sample
\* was below the anchor height.
C3_Witness ==
    /\ pc = "int_done"
    /\ shot.status = "returned"
    /\ itg.i > 0
    /\ itg.traj[Len(itg.traj) - 1].y < 0

\* ------------------------------------------------------------------------ C4
\* C4: both searches terminate: every call of integrate_length_tension and of
\* integrate_natural_length eventually returns or fails.
C4_SearchesTerminate ==
    /\ (pc = "ilt_loop") ~> (pc \in {"ilt_done", "failed"})
    /\ (pc = "inl_loop") ~> (pc \in {"done", "failed"})

\* The angle bracket has closed on one value while the shot from it still
\* lands more than the tolerance short of the gap.
C4_Stalled ==
    /\ pc = "int_done"
    /\ shot.status = "returned"
    /\ ilt.b - ilt.a <= 1
    /\ ilt.anchor_angle = ilt.a
    /\ Last(itg.traj).x <= gap_length - XTol

\* ------------------------------------------------------------------------ C5
\* C5: add_slackliner(position, mass) fails when position < 0, position >
\* gap_length or mass <= 0, and then leaves slackliners and mbcs as they were;
\* otherwise it appends exactly one entry, built from its arguments, to each.
C5_AddSlackliner ==
    [][ (pc \in {"idle", "done", "failed"} /\ pc' = "idle"
                                           /\ call'.op = "add_slackliner") =>
          IF call'.position < 0 \/ call'.position > gap_length \/ call'.mass <= 0
          THEN /\ err' = "ValueError"
               /\ slackliners' = slackliners
               /\ mbcs' = mbcs
          ELSE /\ err' = "none"
               /\ slackliners' = Append(slackliners, <<call'.position, call'.mass>>)
               /\ Len(mbcs') = Len(mbcs) + 1
               /\ SubSeq(mbcs', 1, Len(mbcs)) = mbcs
               /\ Last(mbcs').x = call'.position
               /\ Last(mbcs').M = call'.mass
      ]_vars

\* A rejected call on an object that already holds a load.
C5_Witness ==
    /\ call.op = "add_slackliner"
    /\ err = "ValueError"
    /\ Len(slackliners) > 0
    /\ Len(mbcs) = Len(slackliners)

\* ------------------------------------------------------------------------ C6
\* C6: the load list is strictly increasing in position.
C6_LoadsStrictlyIncreasing ==
    \A k \in 1..(Len(slackliners) - 1) :
        slackliners[k][1] < slackliners[k + 1][1]

\* ------------------------------------------------------------------------ C7
\* C7: a load at exactly 0 or exactly gap_length is dropped: no jump is
\* evaluated at it, and when every load is such a load the profile rig()
\* returns is the profile without loads.
C7_EndLoadsDropped ==
    /\ \A k \in 1..Len(jumps) : jumps[k] # 0 /\ jumps[k] # gap_length
    /\ ( /\ pc = "done"
         /\ \A k \in 1..Len(slackliners) : slackliners[k][1] \in {0, gap_length} )
       => result = MakeRig(slackline, rig.unloaded)

\* ------------------------------------------------------------------------ C8
\* C8: a Constraints object exists only with gap_length > 0, anchor_tension > 0
\* and a slackline whose m, g and K are all positive.
C8_ConstructorValidates ==
    pc # "new" =>
        /\ gap_length > 0
        /\ anchor_tension > 0
        /\ slackline.m > 0 /\ slackline.g > 0 /\ slackline.K > 0

\* ------------------------------------------------------------------------ C9
\* C9: one pass of integrate() raises SlacklineTooLongError exactly when it was
\* on the last segment, had integrated up to length_cutoff and the final
\* sample had y < 0; it never integrates beyond length_cutoff; and a trajectory
\* it returns ends on the anchor height.
C9_TooLongExactly ==
    [][ pc = "int_loop" =>
          /\ shot'.status = "SlacklineTooLongError" <=>
                /\ itg.i = Len(itg.masses)
                /\ itg'.x_end = itg.length_cutoff
                /\ itg'.y_end < 0
                /\ pc' # "failed"
          /\ itg'.x_end <= itg.length_cutoff
          /\ shot'.status = "returned" => Last(itg'.traj).y = 0
      ]_vars

\* SlacklineTooLongError on the segment after a load.
C9_Witness ==
    /\ pc = "int_done"
    /\ shot.status = "SlacklineTooLongError"
    /\ itg.i > 0
    /\ itg.x_end = itg.length_cutoff
    /\ itg.y_end < 0

\* ----------------------------------------------------------------------- C10
\* C10: a jump without a root is reported by raising: the jump solver never
\* hands None to the integrator.
C10_NeverHandsNone ==
    itg.jump # "None"

\* ----------------------------------------------------------------------- C12
\* C12: in every Rig returned by rig() the x samples are equally spaced: each
\* interval x[i+1] - x[i] equals the step dx = x[1] - x[0] that rig() uses.
C12_EquallySpaced ==
    pc = "done" =>
        \A i \in 1..(Len(result.x) - 1) :
            result.x[i + 1] - result.x[i] = result.x[2] - result.x[1]

\* ----------------------------------------------------------------------- C13
\* C13: in every Rig returned by rig() the cumulative natural length is
\* nondecreasing, n[i+1] >= n[i] for every i.
C13_NaturalLengthMonotone ==
    pc = "done" =>
        \A i \in 1..(Len(result.n) - 1) : result.n[i + 1] >= result.n[i]

\* ----------------------------------------------------------------------- C20
\* C20: integrate_length_tension starts from the bracket (0.001, pi/4) and
\* tries its midpoint; SlacklineTooLong or x_final beyond gap_length moves the
\* upper bound to the tried angle, x_final <= gap_length - 0.1 moves the lower
\* bound to it, and the other bound stays; lower < tried < upper holds in every
\* iteration and an iteration that does not return halves the bracket width.
C20_BracketHalves ==
    [][ /\ (pc' = "ilt_loop" /\ pc # "int_done") =>
              ilt'.a = AngleLower /\ ilt'.b = AngleUpper
        /\ pc = "ilt_loop" =>
              /\ 2 * ilt'.anchor_angle <= ilt.a + ilt.b
              /\ 2 * ilt'.anchor_angle >= ilt.a + ilt.b - 1
              /\ ilt.a < ilt'.anchor_angle
              /\ ilt'.anchor_angle < ilt.b
        /\ (pc = "int_done" /\ pc' = "ilt_loop") =>
              /\ IF \/ shot.status = "SlacklineTooLongError"
                    \/ Last(itg.traj).x > gap_length
                 THEN ilt'.b = ilt.anchor_angle /\ ilt'.a = ilt.a
                 ELSE /\ Last(itg.traj).x <= gap_length - XTol
                      /\ ilt'.a = ilt.anchor_angle /\ ilt'.b = ilt.b
              /\ 2 * (ilt'.b - ilt'.a) <= (ilt.b - ilt.a) + 1
      ]_vars

\* ----------------------------------------------------------------------- C19
\* C19: rig() consumes the request immutably: no step of a rig() call changes
\* the material, gap_length, anchor_tension, the load list or the cached
\* closures of the Constraints, and integrate's filter of the loads at x = 0
\* leaves the list it was passed as it was (the default list stays empty).
C19_RequestImmutable ==
    [][ call'.op = "rig" =>
          /\ slackline' = slackline
          /\ gap_length' = gap_length
          /\ anchor_tension' = anchor_tension
          /\ slackliners' = slackliners
          /\ mbcs' = mbcs
          /\ pc = "ilt_loop" => ilt'.masses = ilt.masses
          /\ rig'.phase = "unloaded" => ilt'.masses = << >>
      ]_vars

\* rig() has returned for a request that holds a load at x = 0, which the
\* filter removed from the integrator's own list.
C19_Witness ==
    /\ pc = "done"
    /\ \E k \in 1..Len(slackliners) : slackliners[k][1] = 0
    /\ Len(itg.masses) < Len(slackliners)
    /\ ilt.masses = slackliners

\* ----------------------------------------------------------------------- C17
\* C17: for every Constraints object c, Constraints.from_json(c.to_json())
\* succeeds and yields a Constraints whose material fields (name, m, g, K),
\* gap_length, anchor_tension and ordered load list equal those of c.
C17_ConstraintsRoundTrip ==
    (wire.of = "Constraints" /\ copy.arg = "str") =>
        /\ copy.kind = "Constraints"
        /\ copy.obj.slackline.name = slackline.name
        /\ copy.obj.slackline.m = slackline.m
        /\ copy.obj.slackline.g = slackline.g
        /\ copy.obj.slackline.K = slackline.K
        /\ copy.obj.gap_length = gap_length
        /\ copy.obj.anchor_tension = anchor_tension
        /\ Len(copy.obj.slackliners) = Len(slackliners)
        /\ \A k \in 1..Len(slackliners) :
              /\ copy.obj.slackliners[k][1] = slackliners[k][1]
              /\ copy.obj.slackliners[k][2] = slackliners[k][2]

\* ----------------------------------------------------------------------- C18
\* C18: for every Rig r, Rig.from_json(r.to_json()) yields a Rig whose six
\* arrays x, n, l, y, T and A have the same length as those of r and equal them
\* element by element (a NaN element equals nothing), each under its own name.
C18_RigRoundTrip ==
    copy.kind = "Rig" =>
        /\ Len(copy.obj.x) = Len(result.x) /\ Len(copy.obj.n) = Len(result.n)
        /\ Len(copy.obj.l) = Len(result.l) /\ Len(copy.obj.y) = Len(result.y)
        /\ Len(copy.obj.T) = Len(result.T) /\ Len(copy.obj.A) = Len(result.A)
        /\ \A k \in 1..Len(result.x) :
              /\ copy.obj.x[k] = result.x[k] /\ result.x[k] # NaN
              /\ copy.obj.n[k] = result.n[k] /\ result.n[k] # NaN
              /\ copy.obj.l[k] = result.l[k] /\ result.l[k] # NaN
              /\ copy.obj.y[k] = result.y[k] /\ result.y[k] # NaN
              /\ copy.obj.T[k] = result.T[k] /\ result.T[k] # NaN
              /\ copy.obj.A[k] = result.A[k] /\ result.A[k] # NaN

\* A loaded Rig with negative sag values and distinct n and l columns has gone
\* through to_json and from_json.
C18_Witness ==
    /\ copy.kind = "Rig"
    /\ Len(slackliners) > 0
    /\ Len(copy.obj.x) > NumSamples
    /\ \E k \in 1..Len(result.y) : result.y[k] < 0
    /\ \E k \in 1..Len(result.n) : result.n[k] # result.l[k]

\* ----------------------------------------------------------------------- C11
\* C11: when the ODE solver stops before the requested end of a segment
\* (integrate) or of the time span (simulate), the operation fails with
\* IntegratorDiverged; a short solution is neither taken for a completed
\* segment nor returned as a profile.
C11_TruncationRaises ==
    /\ (itg.nsol >= 0 /\ itg.nsol < NumSamples) =>
           (pc = "failed" /\ err = "IntegratorDiverged")
    /\ (sim.status # "none" /\ Len(sim.t) < sim.n_frames) =>
           sim.status = "IntegratorDiverged"

\* ----------------------------------------------------------------------- C14
\* C14: in every frame that simulate returns, the two boundary nodes hold
\* their equilibrium value and have zero velocity, whatever the initial
\* perturbation and the external forcing are.
C14_AnchorsPinned ==
    sim.status = "returned" =>
        \A k \in 1..Len(sim.y) :
            /\ sim.y[k][1] = dyn.y_eq[1]
            /\ sim.y[k][dyn.n_nodes] = dyn.y_eq[dyn.n_nodes]
            /\ sim.y_dot[k][1] = 0
            /\ sim.y_dot[k][dyn.n_nodes] = 0

\* A simulation with a perturbation that is nonzero at both anchors and a
\* force on the left anchor node returned all its frames, and the interior
\* moved.
C14_Witness ==
    /\ sim.status = "returned"
    /\ sim.forcing = "anchor"
    /\ sim.perturbation # << >>
    /\ sim.perturbation[1] # 0
    /\ sim.perturbation[dyn.n_nodes] # 0
    /\ Len(sim.y) = NumFrames
    /\ sim.y[NumFrames][2] # sim.y[1][2]

\* ----------------------------------------------------------------------- C15
\* C15: started from the static equilibrium of an unloaded line with zero
\* perturbation and no external force, the net force on every interior node
\* is zero within tolerance (here: within the node's whole weight), and
\* |y(t) - y_eq| stays below 1e-3 * L at every node of every frame.
C15_EquilibriumIsFixedPoint ==
    /\ (dyn.kind = "DynamicSlackline" /\ dyn.slackline.m # 0
          /\ Len(slackliners) = 0) =>
          \A i \in 2..(dyn.n_nodes - 1) :
              Abs(NetForce(dyn, dyn.y_eq, [k \in 1..dyn.n_nodes |-> 0],
                           [k \in 1..dyn.n_nodes |-> 0], i))
                  <= dyn.segment_mass[i] * dyn.slackline.g
    /\ (sim.status = "returned" /\ sim.forcing = "None"
          /\ sim.perturbation = << >> /\ Len(slackliners) = 0) =>
          \A k \in 1..Len(sim.y) : \A i \in 1..dyn.n_nodes :
              10 * Abs(sim.y[k][i] - dyn.y_eq[i]) < dyn.x[dyn.n_nodes] - dyn.x[1]

\* ----------------------------------------------------------------------- C16
\* C16: simulate with t_span = (t_start, t_end) and n_frames = F returns
\* exactly F time points, evenly spaced from t_start to t_end inclusive, and a
\* position matrix of F rows and n_nodes columns.
C16_ExactlyFFrames ==
    sim.status = "returned" =>
        /\ Len(sim.t) = sim.n_frames
        /\ Len(sim.y) = sim.n_frames
        /\ \A k \in 1..Len(sim.y) : Len(sim.y[k]) = dyn.n_nodes
        /\ sim.t[1] = sim.t_span[1]
        /\ sim.t[Len(sim.t)] = sim.t_span[2]
        /\ \A k \in 1..Len(sim.t) :
              Abs((sim.n_frames - 1) * (sim.t[k] - sim.t_span[1])
                    - (k - 1) * (sim.t_span[2] - sim.t_span[1])) < sim.n_frames - 1

\* ----------------------------------------------------------------------- C21
\* C21: integrate_natural_length starts its bracket at
\* [natural_length*m*g, 50000] and tries the midpoint; a final natural length
\* 0.1 or more above the target moves the lower bound to the tried tension,
\* one 0.1 or more below moves the upper bound, the first trajectory within
\* 0.1 is returned; the lower bound never exceeds the upper bound.
C21_TensionBracket ==
    [][ /\ (pc = "ilt_done" /\ pc' = "inl_loop" /\ rig.phase = "unloaded") =>
              /\ inl'.a = Div(Last(itg.traj).n * slackline.m * slackline.g, FP)
              /\ inl'.b = TensionUpper
        /\ pc = "inl_loop" =>
              /\ 2 * inl'.anchor_tension <= inl.a + inl.b
              /\ 2 * inl'.anchor_tension >= inl.a + inl.b - 1
        /\ (pc = "ilt_done" /\ rig.phase = "loaded") =>
              IF Abs(Last(itg.traj).n - rig.natural_length) < NTol
              THEN pc' = "done" /\ result'.n = [k \in 1..Len(itg.traj) |-> itg.traj[k].n]
              ELSE IF Last(itg.traj).n > rig.natural_length
              THEN pc' = "inl_loop" /\ inl'.a = inl.anchor_tension /\ inl'.b = inl.b
              ELSE pc' = "inl_loop" /\ inl'.b = inl.anchor_tension /\ inl'.a = inl.a
        /\ pc' = "inl_loop" => inl'.a <= inl'.b
      ]_vars

\* ----------------------------------------------------------------------- C22
\* C22: rig() first runs the angle search with the standing anchor tension
\* and no loads, also when loads are present; it runs the natural-length
\* search only with at least one load, only after the unloaded search has
\* returned, and with the unloaded final natural length as its target, which
\* it keeps; without loads it builds the Rig from the one angle search and
\* runs no tension search.
C22_UnloadedSearchFirst ==
    [][ /\ (pc \in {"idle", "done", "failed"} /\ pc' = "ilt_loop") =>
              /\ rig'.phase = "unloaded"
              /\ ilt'.masses = << >>
              /\ ilt'.anchor_tension = anchor_tension
              /\ inl' = NoInl
        /\ (rig'.phase = "loaded" /\ rig.phase # "loaded") =>
              /\ pc = "ilt_done" /\ rig.phase = "unloaded"
              /\ Len(slackliners) > 0
              /\ rig'.natural_length = Last(itg.traj).n
              /\ pc' = "inl_loop"
        /\ (rig.phase = "loaded" /\ rig'.phase = "loaded") =>
              rig'.natural_length = rig.natural_length
        /\ pc' = "inl_loop" => rig'.phase = "loaded"
        /\ pc = "inl_loop" => ilt'.masses = slackliners
        /\ (pc = "ilt_done" /\ rig.phase = "unloaded" /\ Len(slackliners) = 0) =>
              /\ pc' = "done"
              /\ inl' = NoInl
              /\ result'.y = [k \in 1..Len(itg.traj) |-> itg.traj[k].y]
      ]_vars

\* rig() returned a loaded Rig: the unloaded search ran first and left its
\* trajectory, then the tension search ran with the loads.
C22_Witness ==
    /\ pc = "done"
    /\ rig.phase = "loaded"
    /\ Len(rig.unloaded) >= NumSamples
    /\ rig.natural_length = Last(rig.unloaded).n
    /\ Len(ilt.masses) > 0
    /\ inl.anchor_tension > 0
    /\ ilt.anchor_tension = inl.anchor_tension


\* C23: integrate terminates: an interior segment is integrated once, up to
\* the next load; on the last segment the target starts LGuess (1000 m) past
\* the current x, doubles after each attempt that stays below y = 0, never
\* exceeds length_cutoff, and the attempt whose target equals length_cutoff
\* ends the search with an anchor crossing or with SlacklineTooLongError.
C23_IntegrateTerminates ==
    [][ /\ (pc = "int_loop" /\ pc' = "int_loop" /\ itg'.i = itg.i) =>
              /\ itg.i = Len(itg.masses)
              /\ itg'.y_end < 0
              /\ itg'.x_end < itg.length_cutoff
              /\ itg'.L = 2 * (itg'.x_end - itg.last_x)
        /\ (pc' = "int_loop" /\ itg'.i = Len(itg'.masses) /\ (pc # "int_loop" \/ itg.i # itg'.i)) =>
              itg'.L = LGuess
        /\ (pc = "int_loop" /\ itg.i < Len(itg.masses)) =>
              /\ itg'.x_end = itg.masses[itg.i + 1][1]
              /\ pc' = "int_loop" => itg'.i = itg.i + 1
        /\ pc = "int_loop" => itg'.x_end <= itg.length_cutoff
        /\ (pc = "int_loop" /\ itg.i = Len(itg.masses) /\ itg'.x_end = itg.length_cutoff) =>
              /\ pc' = "int_done"
              /\ shot'.status \in {"returned", "SlacklineTooLongError"}
      ]_vars

C25_JumpCarriesPosition ==
    [][ /\ (pc = "int_loop" /\ pc' = "int_loop" /\ itg'.i = itg.i + 1) =>
              LET last == Last(itg'.traj)
                  jm   == Jump(calculus, slackline,
                               mass_boundary_conditions(
                                   itg.masses[itg.i + 1][1], slackline.m,
                                   slackline.g, slackline.K, itg.masses[itg.i + 1][2]),
                               itg.masses[itg.i + 1][2], last)
              IN  /\ Len(itg'.traj) = Len(itg.traj) + NumSamples
                  /\ itg'.last_x = last.x
                  /\ itg'.last_x = itg.masses[itg.i + 1][1]
                  /\ itg'.st0.y = last.y
                  /\ itg'.st0.n = last.n
                  /\ itg'.st0.a = jm.a
                  /\ itg'.st0.b = jm.b
        /\ (pc = "int_loop" /\ itg.i >= 1 /\ Len(itg'.traj) > Len(itg.traj) + 1) =>
              LET last  == Last(itg.traj)
                  first == itg'.traj[Len(itg.traj) + 1]
              IN  /\ first.x = last.x
                  /\ first.y = last.y
                  /\ first.n = last.n
                  /\ first.y_x = itg.st0.a
                  /\ first.n_x = itg.st0.b
      ]_vars

C25_Witness ==
    /\ pc = "int_done" /\ shot.status = "returned" /\ itg.i = 1
    /\ Len(itg.traj) > NumSamples + 1
    /\ itg.traj[NumSamples + 1].x = itg.traj[NumSamples].x
    /\ itg.traj[NumSamples + 1].y = itg.traj[NumSamples].y
    /\ itg.traj[NumSamples].y < 0
    /\ itg.traj[NumSamples + 1].y_x > itg.traj[NumSamples].y_x

\* C26: the first frame simulate returns is at t_start and equals y_eq plus
\* the perturbation at every interior node and y_eq at the two anchors, with
\* zero velocity everywhere; without a perturbation it equals y_eq, the static
\* profile interpolated onto the node grid; a callable perturbation is
\* evaluated on the node grid x.
C26_FirstFrame ==
    (dyn.kind = "DynamicSlackline" /\ sim.status = "returned") =>
        /\ sim.t[1] = sim.t_span[1]
        /\ \A i \in 2..(dyn.n_nodes - 1) :
              sim.y[1][i] = dyn.y_eq[i]
                  + (IF sim.perturbation = << >> THEN 0 ELSE sim.perturbation[i])
        /\ sim.y[1][1] = dyn.y_eq[1]
        /\ sim.y[1][dyn.n_nodes] = dyn.y_eq[dyn.n_nodes]
        /\ \A i \in 1..dyn.n_nodes : sim.y_dot[1][i] = 0
        /\ sim.perturbation = << >> => sim.y[1] = dyn.y_eq
        /\ \A i \in 1..dyn.n_nodes :
              /\ dyn.x[i] = result.x[1]
                    + Div((i - 1) * (Last(result.x) - result.x[1]), dyn.n_nodes - 1)
              /\ dyn.y_eq[i] = interp(dyn.x[i], result.x, result.y)
              /\ \A k \in 1..Len(result.x) :
                    dyn.x[i] = result.x[k] => dyn.y_eq[i] = result.y[k]
        /\ sim.callable =>
              \A i \in 1..dyn.n_nodes : sim.perturbation[i] = Div(dyn.x[i], 5)

C26_Witness ==
    /\ dyn.kind = "DynamicSlackline" /\ sim.status = "returned"
    /\ sim.callable /\ dyn.n_nodes > 3
    /\ sim.perturbation[2] > 0
    /\ sim.perturbation[3] > sim.perturbation[2]
    /\ sim.y[1][2] = dyn.y_eq[2] + sim.perturbation[2]
    /\ sim.perturbation[dyn.n_nodes] > 0
    /\ dyn.y_eq[2] < 0

\* C27: in equations_of_motion the left segment of an interior node i, when
\* under positive strain, never pushes node i away from node i-1 (its
\* contribution to forces[i] has the sign of y[i-1] - y[i]), and the right
\* segment under positive strain never pushes it away from node i+1 (sign of
\* y[i+1] - y[i]); checked at the equilibrium and at every returned frame.
C27_TensionPullsTowardNeighbour ==
    dyn.kind = "DynamicSlackline" =>
        \A y \in {dyn.y_eq} \cup
                 (IF sim.status = "returned" THEN {sim.y[k] : k \in 1..Len(sim.y)} ELSE {}) :
          \A i \in 2..(dyn.n_nodes - 1) :
            LET left  == SegmentPull(dyn, y[i] - y[i - 1], dyn.dn_eq[i - 1])
                right == -SegmentPull(dyn, y[i + 1] - y[i], dyn.dn_eq[i])
            IN  /\ ClippedStrain(SegmentArc(y[i] - y[i - 1], dyn.dx), dyn.dn_eq[i - 1]) > 0 =>
                      /\ ~(left > 0 /\ y[i - 1] < y[i])
                      /\ ~(left < 0 /\ y[i - 1] > y[i])
                /\ ClippedStrain(SegmentArc(y[i + 1] - y[i], dyn.dx), dyn.dn_eq[i]) > 0 =>
                      /\ ~(right > 0 /\ y[i + 1] < y[i])
                      /\ ~(right < 0 /\ y[i + 1] > y[i])

\* C28: in an evaluation of equations_of_motion the strain of every segment is
\* clipped to [-0.5, 2.0], so the tension a segment contributes lies in
\* [-0.5*K, 2*K] whatever the node positions are (2*K exactly once the
\* segment is stretched to three times its rest length); a segment whose
\* length is not finite contributes no force, and the call returns.
C28_TensionClipped ==
    (dyn.kind = "DynamicSlackline" /\ sim.status = "evaluated") =>
        /\ \A k \in 1..(dyn.n_nodes - 1) :
              LET dy == sim.state[k + 1] - sim.state[k]
                  nonfinite == \/ sim.state[k] \in {Inf, NaN}
                               \/ sim.state[k + 1] \in {Inf, NaN}
              IN  /\ 2 * sim.tension[k] >= -dyn.slackline.K
                  /\ sim.tension[k] <= 2 * dyn.slackline.K
                  /\ sim.skipped[k] <=> nonfinite
                  /\ nonfinite => sim.tension[k] = 0
                  /\ (~nonfinite /\ dyn.dn_eq[k] > 0
                        /\ SegmentArc(dy, dyn.dx) >= 3 * dyn.dn_eq[k]) =>
                        sim.tension[k] = 2 * dyn.slackline.K
        /\ \A i \in 2..(dyn.n_nodes - 1) :
              (sim.skipped[i - 1] /\ sim.skipped[i]) => sim.pull[i] = 0

C28_Witness ==
    /\ dyn.kind = "DynamicSlackline" /\ sim.status = "evaluated"
    /\ dyn.n_nodes > 3
    /\ sim.tension[1] = 2 * dyn.slackline.K
    /\ sim.tension[3] > 0 /\ sim.tension[3] < 2 * dyn.slackline.K
    /\ ~sim.skipped[1]

\* C29: in a trajectory that integrate_length_tension returned, every load
\* strictly inside (0, gap_length) has had its jump applied exactly once, at
\* its own x and in list order: the jumps of the returning integrate call at
\* such positions are the positions of those loads, none left out.
C29_NoLoadSkipped ==
    pc = "ilt_done" =>
        SelectSeq(jumps, LAMBDA p : 0 < p /\ p < gap_length)
          = SelectSeq([k \in 1..Len(ilt.masses) |-> ilt.masses[k][1]],
                      LAMBDA p : 0 < p /\ p < gap_length)

\* C30: after any sequence of add_slackliner calls, accepted or rejected, and
\* on every object Constraints.from_json returns, the cached jump conditions
\* are aligned with the load list: len(mbcs) = len(slackliners), and mbcs[i]
\* captures the position and mass of slackliners[i] and the object's material.
C30_MbcsAligned ==
    \A c \in {<<slackline, slackliners, mbcs>>} \cup
             (IF copy.kind = "Constraints"
              THEN {<<copy.obj.slackline, copy.obj.slackliners, copy.obj.mbcs>>}
              ELSE {}) :
        /\ Len(c[3]) = Len(c[2])
        /\ \A i \in 1..Len(c[2]) :
              c[3][i] = [x |-> c[2][i][1], m |-> c[1].m, g |-> c[1].g,
                         K |-> c[1].K, M |-> c[2][i][2]]

C30_Witness ==
    /\ copy.kind = "Constraints"
    /\ Len(copy.obj.slackliners) = 2 /\ Len(copy.obj.mbcs) = 2
    /\ copy.obj.slackliners[1][1] > copy.obj.slackliners[2][1]
    /\ copy.obj.mbcs[2].x = copy.obj.slackliners[2][1]
    /\ copy.obj.mbcs[1].M = 5000
    /\ mbcs = copy.obj.mbcs

====
